---- MODULE Spec2Model ----
(***************************************************************************)
(* Model of the two verification runners of the repository:                *)
(*   scripts/test-security.py       (6 security suites, main at 239-266)   *)
(*   scripts/test_ui_production.py  (10 page probes,    main at 381-437)   *)
(* Every probe function is an operator from the outcomes of its external   *)
(* calls (HTTP responses, browser observations, raised exceptions) to a    *)
(* Python result: a returned value or a raised exception.  One action of   *)
(* main per statement of main.                                             *)
(***************************************************************************)
EXTENDS Integers, Sequences, FiniteSets, TLC

VARIABLES
    runner,     \* which entry point this process runs: "security" or "ui"
    pc,         \* the statement of main that runs next
    results,    \* the results / test_results dict, in insertion order
    summary,    \* the summary lines printed so far
    exit_code,  \* {} while running, {n} once the process has exited with n
    uncaught,   \* an exception has left main (traceback)
    caught,     \* ui: the except branch of main has logged an execution error
    browser,    \* ui: "none", "launched" (no page yet), "open" or "closed"
    closes,     \* ui: number of browser.close() calls made by main
    call,       \* the last probe call: its name, external outcomes and result
    invoked,    \* the names of the probe functions main has called, in order
    total       \* ui: {} until the summary block has printed its "Total" line

vars ==
    <<runner, pc, results, summary, exit_code, uncaught, caught, browser, closes,
      call, invoked, total>>

(***************************************************************************)
(* Bounds of the model                                                     *)
(***************************************************************************)
MaxConsoleErrors == 1
MaxCount == 1

(***************************************************************************)
(* Python values                                                           *)
(***************************************************************************)
PyBool(b) == [ty |-> "bool", b |-> b, s |-> "", n |-> 0]
PyStr(s) == [ty |-> "str", b |-> FALSE, s |-> s, n |-> 0]
PyInt(n) == [ty |-> "int", b |-> FALSE, s |-> "", n |-> n]
NoneV == [ty |-> "none", b |-> FALSE, s |-> "", n |-> 0]
\* marks a key that a dict does not hold
Absent == [ty |-> "absent", b |-> FALSE, s |-> "", n |-> 0]

\* truth value of a Python object, as "if x", "x and y", all() take it
Truthy(v) ==
    CASE v.ty = "bool" -> v.b
      [] v.ty = "str" -> v.s # ""
      [] v.ty = "int" -> v.n # 0
      [] OTHER -> FALSE

\* x and y
PyAnd(x, y) == IF Truthy(x) THEN y ELSE x

\* all(values)
PyAll(vals) == \A k \in 1..Len(vals) : Truthy(vals[k])

\* d.get(key, default) on a dict held as a function over its keys
DictGet(d, key, default) == IF key \in DOMAIN d THEN d[key] ELSE default

\* needle in haystack, on strings held as sequences of characters
IsSubstring(needle, hay) ==
    \E k \in 0..(Len(hay) - Len(needle)) :
        SubSeq(hay, k + 1, k + Len(needle)) = needle

\* the result of a call: a returned value, or a raised exception
Return(v, sent) == [raised |-> FALSE, ret |-> v, sent |-> sent]
Raise(sent) == [raised |-> TRUE, ret |-> NoneV, sent |-> sent]

(***************************************************************************)
(* test-security.py                                                        *)
(***************************************************************************)
ACAO == "Access-Control-Allow-Origin"

\* what an HTTP call of requests can give: a transport exception or a response
HeaderSets ==
    {<<>>} \cup {[h \in {ACAO} |-> v] : v \in {"", "http://localhost:3001", "*"}}
CorsOutcomes ==
    {[err |-> TRUE, headers |-> <<>>]} \cup {[err |-> FALSE, headers |-> h] : h \in HeaderSets}
CorsInputs == [allowed : CorsOutcomes, evil : CorsOutcomes]

\* test_cors_headers without the disallowed origin in the verdict
test_cors_headers_AllowedOnly(in) ==
    IF in.allowed.err THEN Raise(1)
    ELSE IF in.evil.err THEN Raise(2)
    ELSE Return(PyStr(DictGet(in.allowed.headers, ACAO, "")), 2)

test_cors_headers(in) ==
    IF in.allowed.err THEN Raise(1)
    ELSE IF in.evil.err THEN Raise(2)
    ELSE LET cors_header == PyStr(DictGet(in.allowed.headers, ACAO, ""))
             evil_cors == PyStr(DictGet(in.evil.headers, ACAO, ""))
             passed == PyAnd(cors_header, PyBool(~Truthy(evil_cors)))
         IN Return(passed, 2)

\* the tests list of test_zod_validation: every case expects status 400
ZodTests ==
    << [name |-> "Signup - invalid email", expected_code |-> 400],
       [name |-> "Signup - short password", expected_code |-> 400],
       [name |-> "Signin - invalid email format", expected_code |-> 400],
       [name |-> "Test Slack - invalid bot token format", expected_code |-> 400],
       [name |-> "Test Slack - invalid app token format", expected_code |-> 400] >>

S_Validation == <<"V", "a", "l", "i", "d", "a", "t", "i", "o", "n">>
Msg_ValidationFailed == <<"V", "a", "l", "i", "d", "a", "t", "i", "o", "n", " ", "f", "a", "i", "l", "e", "d">>
Msg_validation_lower == <<"v", "a", "l", "i", "d", "a", "t", "i", "o", "n", " ", "e", "r", "r", "o", "r">>

\* a POST of test_zod_validation: transport exception, or status and body.
\* json = FALSE: response.json() raises; error is "absent", "null" or "str" (msg)
ZodResp(status, json, code, error, msg) ==
    [err |-> FALSE, status |-> status, json |-> json, code |-> code, error |-> error, msg |-> msg]
ZodTransportError ==
    [err |-> TRUE, status |-> 0, json |-> FALSE, code |-> Absent, error |-> "absent", msg |-> <<>>]
ZodOutcomes ==
    { ZodTransportError,
      ZodResp(200, TRUE, Absent, "absent", <<>>),
      ZodResp(400, FALSE, Absent, "absent", <<>>),
      ZodResp(400, TRUE, PyStr("VALIDATION_ERROR"), "null", <<>>),
      ZodResp(400, TRUE, Absent, "str", Msg_ValidationFailed),
      ZodResp(400, TRUE, PyStr("BAD_REQUEST"), "str", Msg_validation_lower),
      ZodResp(400, TRUE, PyStr("BAD_REQUEST"), "null", <<>>),
      ZodResp(400, TRUE, Absent, "absent", <<>>) }
ZodInputs == [1..Len(ZodTests) -> ZodOutcomes]

\* ZodCase without the check of the body at 82-85
ZodCase_StatusOnly(test, o) ==
    IF o.err THEN "except"
    ELSE IF o.status = test.expected_code THEN "pass" ELSE "fail"

\* one iteration of the loop at 76-94: "pass", "fail" (not passed) or
\* "except" (the except branch ran)
ZodCase(test, o) ==
    IF o.err THEN "except"
    ELSE LET passed == (o.status = test.expected_code)
         IN IF passed /\ o.status = 400
            THEN IF ~o.json THEN "except"
                 ELSE IF o.code = PyStr("VALIDATION_ERROR") THEN "pass"
                 ELSE IF o.error = "null" THEN "except"
                 ELSE IF o.error = "str" /\ IsSubstring(S_Validation, o.msg) THEN "pass"
                 ELSE "fail"
            ELSE IF passed THEN "pass" ELSE "fail"

RECURSIVE ZodLoop(_, _, _)
ZodLoop(in, i, all_passed) ==
    IF i > Len(ZodTests) THEN Return(PyBool(all_passed), i - 1)
    ELSE ZodLoop(in, i + 1, all_passed /\ ZodCase(ZodTests[i], in[i]) = "pass")

test_zod_validation(in) == ZodLoop(in, 1, TRUE)

\* GET /api/setup/status: completed and steps.workspace of the JSON body
SetupSteps ==
    {[kind |-> "absent", workspace |-> Absent], [kind |-> "null", workspace |-> Absent]}
    \cup {[kind |-> "dict", workspace |-> w] :
             w \in {Absent, NoneV, PyBool(FALSE), PyBool(TRUE), PyInt(0)}}
SetupInputs ==
    {[err |-> TRUE, status |-> 0, json |-> FALSE, completed |-> Absent,
      steps |-> [kind |-> "absent", workspace |-> Absent]]}
    \cup {[err |-> FALSE, status |-> 200, json |-> FALSE, completed |-> Absent,
           steps |-> [kind |-> "absent", workspace |-> Absent]]}
    \cup [err : {FALSE}, status : {200, 401}, json : {TRUE},
          completed : {Absent, NoneV, PyBool(FALSE), PyBool(TRUE), PyInt(0)},
          steps : SetupSteps]

\* x == False
EqFalse(v) == (v.ty = "bool" /\ v.b = FALSE) \/ (v.ty = "int" /\ v.n = 0)

\* d.get(key) of a key held as Absent when missing
GetOrNone(v) == IF v = Absent THEN NoneV ELSE v

test_setup_status_auth(in) ==
    IF in.err THEN Raise(1)
    ELSE IF ~in.json THEN Raise(1)
    ELSE IF ~EqFalse(GetOrNone(in.completed)) THEN Return(PyBool(FALSE), 1)
    ELSE IF in.steps.kind = "null" THEN Raise(1)
    ELSE IF in.steps.kind = "absent" THEN Return(PyBool(FALSE), 1)
    ELSE Return(PyBool(EqFalse(GetOrNone(in.steps.workspace))), 1)

\* the payloads of test_sql_injection_protection
SqlPayloads == <<"test'; DROP TABLE workspaces; --", "test%' OR '1'='1", "test.ilike.%admin%">>
SqlOutcomes ==
    {[err |-> TRUE, status |-> 0]} \cup {[err |-> FALSE, status |-> s] : s \in {200, 400, 401, 500, 502}}
SqlInputs == [1..Len(SqlPayloads) -> SqlOutcomes]

SqlIsSafe(o) == o.status # 500

RECURSIVE SqlLoop(_, _, _)
SqlLoop(in, i, all_safe) ==
    IF i > Len(SqlPayloads) THEN Return(PyBool(all_safe), i - 1)
    ELSE IF in[i].err THEN SqlLoop(in, i + 1, all_safe)
    ELSE SqlLoop(in, i + 1, all_safe /\ SqlIsSafe(in[i]))

test_sql_injection_protection(in) == SqlLoop(in, 1, TRUE)

\* range(7) of test_rate_limiting
RateAttempts == 7
RateOutcomes == {[err |-> TRUE, status |-> 0]} \cup {[err |-> FALSE, status |-> s] : s \in {401, 429}}
RateInputs == [1..RateAttempts -> RateOutcomes]

RECURSIVE RateLoop(_, _, _)
RateLoop(in, i, rl_results) ==
    IF i > RateAttempts THEN rl_results
    ELSE IF in[i].err THEN RateLoop(in, i + 1, Append(rl_results, PyStr("error")))
    ELSE RateLoop(in, i + 1, Append(rl_results, PyInt(in[i].status)))

\* x in list
PyIn(x, list) == \E k \in 1..Len(list) : list[k] = x

\* test_rate_limiting looking at the last attempt only
test_rate_limiting_LastOnly(in) ==
    LET rl_results == RateLoop(in, 1, <<>>)
        rate_limited == rl_results[Len(rl_results)] = PyInt(429)
    IN Return(PyBool(rate_limited), Len(rl_results))

test_rate_limiting(in) ==
    LET rl_results == RateLoop(in, 1, <<>>)
        rate_limited == PyIn(PyInt(429), rl_results)
    IN Return(PyBool(rate_limited), Len(rl_results))

S_auth == <<"/", "a", "u", "t", "h">>
S_login == <<"/", "l", "o", "g", "i", "n">>
Url_auth_login == <<"h", "t", "t", "p", ":", "/", "/", "l", "o", "c", "a", "l", "h", "o", "s", "t", ":", "3", "0", "0", "1", "/", "a", "u", "t", "h", "/", "l", "o", "g", "i", "n">>
Url_login == <<"h", "t", "t", "p", ":", "/", "/", "l", "o", "c", "a", "l", "h", "o", "s", "t", ":", "3", "0", "0", "1", "/", "l", "o", "g", "i", "n">>
Url_dashboard == <<"h", "t", "t", "p", ":", "/", "/", "l", "o", "c", "a", "l", "h", "o", "s", "t", ":", "3", "0", "0", "1", "/", "d", "a", "s", "h", "b", "o", "a", "r", "d">>
Url_root == <<"h", "t", "t", "p", ":", "/", "/", "l", "o", "c", "a", "l", "h", "o", "s", "t", ":", "3", "0", "0", "1", "/">>
FinalUrls == {Url_auth_login, Url_login, Url_dashboard, Url_root}

\* test_with_playwright: some browser step raises, or the run observes
\* submit_count buttons, the final URL and the console errors
PlaywrightInputs ==
    [raises : {TRUE}, submit_count : {0}, final_url : {Url_root}, console_errors : {0}]
    \cup [raises : {FALSE}, submit_count : 0..MaxCount, final_url : FinalUrls,
          console_errors : 0..MaxConsoleErrors]

redirected_to_login(final_url) ==
    IsSubstring(S_auth, final_url) \/ IsSubstring(S_login, final_url)

test_with_playwright(in) ==
    IF in.raises THEN Raise(0) ELSE Return(PyBool(TRUE), 0)

(***************************************************************************)
(* test_ui_production.py                                                   *)
(* (the name=/sync/i arguments of get_by_role are read as patterns)        *)
(***************************************************************************)
U_setup == <<"h", "t", "t", "p", "s", ":", "/", "/", "c", "l", "u", "e", "b", "a", "s", "e", ".", "a", "i", "/", "s", "e", "t", "u", "p">>
U_signin == <<"h", "t", "t", "p", "s", ":", "/", "/", "c", "l", "u", "e", "b", "a", "s", "e", ".", "a", "i", "/", "a", "u", "t", "h", "/", "s", "i", "g", "n", "i", "n">>
U_dashboard == <<"h", "t", "t", "p", "s", ":", "/", "/", "c", "l", "u", "e", "b", "a", "s", "e", ".", "a", "i", "/", "d", "a", "s", "h", "b", "o", "a", "r", "d">>
U_conversations == <<"h", "t", "t", "p", "s", ":", "/", "/", "c", "l", "u", "e", "b", "a", "s", "e", ".", "a", "i", "/", "c", "o", "n", "v", "e", "r", "s", "a", "t", "i", "o", "n", "s">>
U_conversations_q == <<"h", "t", "t", "p", "s", ":", "/", "/", "c", "l", "u", "e", "b", "a", "s", "e", ".", "a", "i", "/", "c", "o", "n", "v", "e", "r", "s", "a", "t", "i", "o", "n", "s", "?", "p", "a", "g", "e", "=", "2">>
U_analytics == <<"h", "t", "t", "p", "s", ":", "/", "/", "c", "l", "u", "e", "b", "a", "s", "e", ".", "a", "i", "/", "a", "n", "a", "l", "y", "t", "i", "c", "s">>
U_billing == <<"h", "t", "t", "p", "s", ":", "/", "/", "c", "l", "u", "e", "b", "a", "s", "e", ".", "a", "i", "/", "b", "i", "l", "l", "i", "n", "g">>
U_team == <<"h", "t", "t", "p", "s", ":", "/", "/", "c", "l", "u", "e", "b", "a", "s", "e", ".", "a", "i", "/", "t", "e", "a", "m">>
S_setup == <<"/", "s", "e", "t", "u", "p">>
S_conversations == <<"/", "c", "o", "n", "v", "e", "r", "s", "a", "t", "i", "o", "n", "s">>
S_analytics == <<"/", "a", "n", "a", "l", "y", "t", "i", "c", "s">>
S_billing == <<"/", "b", "i", "l", "l", "i", "n", "g">>
S_team == <<"/", "t", "e", "a", "m">>

\* s.endswith(suffix)
EndsWith(s, suffix) ==
    Len(s) >= Len(suffix) /\ SubSeq(s, Len(s) - Len(suffix) + 1, Len(s)) = suffix

\* test_authentication: goto_ok (navigation does not raise), the two heading
\* checks, form_ok (fill and click do not raise), wait_ok (wait_for_url
\* returns), the URL read after a failed wait, goto2_ok (the goto at 58-59)
AuthInputs ==
    [goto_ok : BOOLEAN, welcome : BOOLEAN, alt_heading : BOOLEAN, form_ok : BOOLEAN,
     wait_ok : BOOLEAN, url : {U_setup, U_signin}, goto2_ok : BOOLEAN]

\* sent counts the submissions of the credentials
test_authentication(in) ==
    IF ~in.goto_ok THEN Raise(0)
    ELSE IF ~in.welcome /\ ~in.alt_heading THEN Return(PyBool(FALSE), 0)
    ELSE IF ~in.form_ok THEN Raise(0)
    ELSE IF in.wait_ok THEN Return(PyBool(TRUE), 1)
    ELSE IF IsSubstring(S_setup, in.url)
         THEN IF in.goto2_ok THEN Return(PyBool(TRUE), 1) ELSE Raise(1)
    ELSE Return(PyBool(FALSE), 1)

\* a check that fills one entry of the probe's results list:
\* visible / found, and whether the locator call itself raised
Counts == 0..MaxCount

\* one check of a page probe: the value it appends to results and the status
\* of the line it logs ("NONE" when it logs nothing)
Check(value, status) == [value |-> value, status |-> status]

\* the list `results` of a page probe, as Python values
CheckValues(checks) == [k \in 1..Len(checks) |-> PyBool(checks[k].value)]

\* the header check that five page probes share: PASS, or FAIL and False
HeaderCheck(visible) == IF visible THEN Check(TRUE, "PASS") ELSE Check(FALSE, "FAIL")

\* a button or section check: PASS when count() > 0, else WARN; both append
\* True
CountCheck(count) == IF count > 0 THEN Check(TRUE, "PASS") ELSE Check(TRUE, "WARN")

DashboardInputs == [nav_ok : BOOLEAN, header : BOOLEAN, stats : BOOLEAN, nav : BOOLEAN]

\* a dashboard probe whose stats check would append False
DashboardChecks_StatsCritical(in) ==
    <<HeaderCheck(in.header),
      IF in.stats THEN Check(TRUE, "PASS") ELSE Check(FALSE, "WARN"),
      IF in.nav THEN Check(TRUE, "PASS") ELSE Check(FALSE, "FAIL")>>

DashboardChecks(in) ==
    <<HeaderCheck(in.header),
      IF in.stats THEN Check(TRUE, "PASS") ELSE Check(TRUE, "WARN"),
      IF in.nav THEN Check(TRUE, "PASS") ELSE Check(FALSE, "FAIL")>>

test_dashboard(in) ==
    IF ~in.nav_ok THEN Raise(0)
    ELSE Return(PyBool(PyAll(CheckValues(DashboardChecks(in)))), 0)

DocumentsInputs ==
    [nav_ok : BOOLEAN, header : BOOLEAN, list_raises : BOOLEAN, doc_table : Counts,
     empty_state : Counts, sync_raises : BOOLEAN, sync_btn : Counts]
DocumentsChecks(in) ==
    <<HeaderCheck(in.header),
      IF in.list_raises THEN Check(TRUE, "WARN")
      ELSE IF in.doc_table > 0 THEN Check(TRUE, "PASS")
      ELSE IF in.empty_state > 0 THEN Check(TRUE, "PASS")
      ELSE Check(TRUE, "WARN"),
      IF in.sync_raises THEN Check(TRUE, "WARN") ELSE CountCheck(in.sync_btn)>>

test_documents_page(in) ==
    IF ~in.nav_ok THEN Raise(0)
    ELSE Return(PyBool(PyAll(CheckValues(DocumentsChecks(in)))), 0)

BotsInputs ==
    [nav_ok : BOOLEAN, header : BOOLEAN, create_raises : BOOLEAN, create_btn : Counts,
     cards_raises : BOOLEAN, bot_cards : Counts]
BotsChecks(in) ==
    <<HeaderCheck(in.header),
      IF in.create_raises THEN Check(TRUE, "NONE") ELSE CountCheck(in.create_btn),
      IF in.cards_raises THEN Check(TRUE, "NONE")
      ELSE IF in.bot_cards > 0 THEN Check(TRUE, "PASS")
      ELSE Check(TRUE, "INFO")>>

test_bots_page(in) ==
    IF ~in.nav_ok THEN Raise(0)
    ELSE Return(PyBool(PyAll(CheckValues(BotsChecks(in)))), 0)

KnowledgeInputs == [nav_ok : BOOLEAN, header : BOOLEAN, add_raises : BOOLEAN, add_btn : Counts]
KnowledgeChecks(in) ==
    <<HeaderCheck(in.header),
      IF in.add_raises THEN Check(TRUE, "NONE") ELSE CountCheck(in.add_btn)>>

test_knowledge_page(in) ==
    IF ~in.nav_ok THEN Raise(0)
    ELSE Return(PyBool(PyAll(CheckValues(KnowledgeChecks(in)))), 0)

ConversationsInputs ==
    [nav_ok : BOOLEAN, header : BOOLEAN, url : {U_conversations, U_conversations_q, U_signin}]
test_conversations_page(in) ==
    IF ~in.nav_ok THEN Raise(0)
    ELSE Return(PyBool(PyAll(<<PyBool(in.header \/ EndsWith(in.url, S_conversations))>>)), 0)

AnalyticsInputs == [nav_ok : BOOLEAN, header : BOOLEAN, url : {U_analytics, U_signin}]
test_analytics_page(in) ==
    IF ~in.nav_ok THEN Raise(0)
    ELSE Return(PyBool(PyAll(<<PyBool(in.header \/ IsSubstring(S_analytics, in.url))>>)), 0)

SettingsInputs ==
    [nav_ok : BOOLEAN, header : BOOLEAN, integrations_raises : BOOLEAN, integrations : Counts]
SettingsChecks(in) ==
    <<HeaderCheck(in.header),
      IF in.integrations_raises THEN Check(TRUE, "NONE") ELSE CountCheck(in.integrations)>>

test_settings_page(in) ==
    IF ~in.nav_ok THEN Raise(0)
    ELSE Return(PyBool(PyAll(CheckValues(SettingsChecks(in)))), 0)

BillingInputs == [nav_ok : BOOLEAN, header : BOOLEAN, url : {U_billing, U_signin}]
test_billing_page(in) ==
    IF ~in.nav_ok THEN Raise(0)
    ELSE Return(PyBool(PyAll(<<PyBool(in.header \/ IsSubstring(S_billing, in.url))>>)), 0)

TeamInputs ==
    [nav_ok : BOOLEAN, header : BOOLEAN, url : {U_team, U_signin},
     invite_raises : BOOLEAN, invite_btn : Counts]
TeamChecks(in) ==
    <<IF in.header THEN Check(TRUE, "PASS")
      ELSE IF IsSubstring(S_team, in.url) THEN Check(TRUE, "WARN")
      ELSE Check(FALSE, "FAIL"),
      IF in.invite_raises THEN Check(TRUE, "NONE") ELSE CountCheck(in.invite_btn)>>

test_team_page(in) ==
    IF ~in.nav_ok THEN Raise(0)
    ELSE Return(PyBool(PyAll(CheckValues(TeamChecks(in)))), 0)

(***************************************************************************)
(* The two mains                                                           *)
(***************************************************************************)
\* the suites of main in test-security.py, in the order of lines 247-252
SecuritySuites ==
    <<"CORS Headers", "Zod Validation", "Setup Status Auth",
      "SQL Injection Protection", "Rate Limiting", "Playwright Browser Tests">>

\* the probes of main in test_ui_production.py, in the order of lines 398-410
UiProbes ==
    <<"Authentication", "Dashboard", "Documents", "Bots", "Knowledge",
      "Conversations", "Analytics", "Settings", "Billing", "Team">>

\* d[key] = value on a dict held in insertion order
DictSet(d, key, value) ==
    IF \E k \in 1..Len(d) : d[k].name = key
    THEN [k \in 1..Len(d) |-> IF d[k].name = key THEN [name |-> key, value |-> value] ELSE d[k]]
    ELSE Append(d, [name |-> key, value |-> value])

\* d.values()
DictValues(d) == [k \in 1..Len(d) |-> d[k].value]

HasKey(d, key) == \E k \in 1..Len(d) : d[k].name = key

\* d[key], for a key the dict holds
DictAt(d, key) == d[CHOOSE k \in 1..Len(d) : d[k].name = key].value

NoCall == [name |-> "", in |-> <<>>, out |-> Return(NoneV, 0)]

Init ==
    /\ runner \in {"security", "ui"}
    /\ pc = IF runner = "security" THEN SecuritySuites[1] ELSE "launch"
    /\ results = <<>>
    /\ summary = <<>>
    /\ exit_code = {}
    /\ uncaught = FALSE
    /\ caught = FALSE
    /\ browser = "none"
    /\ closes = 0
    /\ call = NoCall
    /\ invoked = <<>>
    /\ total = {}

\* the position of a name in a sequence of names (0 when absent)
IndexOf(seq, name) ==
    IF \E k \in 1..Len(seq) : seq[k] = name
    THEN CHOOSE k \in 1..Len(seq) : seq[k] = name
    ELSE 0

\* a probe function runs to its end: its external outcomes and its result
Called(name, in, out) ==
    /\ call' = [name |-> name, in |-> in, out |-> out]
    /\ invoked' = Append(invoked, name)
    /\ UNCHANGED <<runner, pc, results, summary, exit_code, uncaught, caught, browser,
                   closes, total>>

\* the statement of main that follows results[name] = ...
SecurityNext(name) ==
    IF IndexOf(SecuritySuites, name) < Len(SecuritySuites)
    THEN SecuritySuites[IndexOf(SecuritySuites, name) + 1]
    ELSE "summary"

\* results[name] = <returned value> in main of test-security.py (247-252):
\* the value is stored, or the exception that the call raised leaves main and
\* the interpreter exits with status 1
SecurityAssign ==
    /\ runner = "security"
    /\ call.name = pc
    /\ IF call.out.raised
       THEN /\ uncaught' = TRUE
            /\ exit_code' = {1}
            /\ pc' = "exited"
            /\ UNCHANGED <<results, call>>
       ELSE /\ results' = DictSet(results, pc, call.out.ret)
            /\ pc' = SecurityNext(pc)
            /\ call' = NoCall
            /\ UNCHANGED <<uncaught, exit_code>>
    /\ UNCHANGED <<runner, summary, caught, browser, closes, invoked, total>>

RunCorsHeaders ==
    /\ runner = "security"
    /\ pc = "CORS Headers"
    /\ call = NoCall
    /\ \E in \in CorsInputs :
        \E out \in {test_cors_headers(in)} :
            Called("CORS Headers", in, out)

RunZodValidation ==
    /\ runner = "security"
    /\ pc = "Zod Validation"
    /\ call = NoCall
    /\ \E in \in ZodInputs :
        \E out \in {test_zod_validation(in)} :
            Called("Zod Validation", in, out)

RunSetupStatusAuth ==
    /\ runner = "security"
    /\ pc = "Setup Status Auth"
    /\ call = NoCall
    /\ \E in \in SetupInputs :
        \E out \in {test_setup_status_auth(in)} :
            Called("Setup Status Auth", in, out)

RunSqlInjectionProtection ==
    /\ runner = "security"
    /\ pc = "SQL Injection Protection"
    /\ call = NoCall
    /\ \E in \in SqlInputs :
        \E out \in {test_sql_injection_protection(in)} :
            Called("SQL Injection Protection", in, out)

RunRateLimiting ==
    /\ runner = "security"
    /\ pc = "Rate Limiting"
    /\ call = NoCall
    /\ \E in \in RateInputs :
        \E out \in {test_rate_limiting(in)} :
            Called("Rate Limiting", in, out)

RunPlaywright ==
    /\ runner = "security"
    /\ pc = "Playwright Browser Tests"
    /\ call = NoCall
    /\ \E in \in PlaywrightInputs :
        \E out \in {test_with_playwright(in)} :
            Called("Playwright Browser Tests", in, out)

\* the status column of a summary line of test-security.py
SecurityStatus(passed) == IF Truthy(passed) THEN "PASS" ELSE "CHECK"

\* for test, passed in results.items(): print(status, test)
SecuritySummaryLines(d) ==
    [k \in 1..Len(d) |-> [test |-> d[k].name, status |-> SecurityStatus(d[k].value)]]

\* return 0 if all_passed else 1
ExitCode(d) == IF PyAll(DictValues(d)) THEN 0 ELSE 1

SecuritySummary ==
    /\ runner = "security"
    /\ pc = "summary"
    /\ summary' = SecuritySummaryLines(results)
    /\ exit_code' = {ExitCode(results)}
    /\ pc' = "exited"
    /\ UNCHANGED <<runner, results, uncaught, caught, browser, closes, call,
                   invoked, total>>

\* what lines 391-394 can do: sync_playwright() or chromium.launch() raises,
\* the browser is launched and new_context() or new_page() raises, or the
\* page is created
LaunchOutcomes == {"launch raises", "page raises", "page created"}

\* lines 391-394, which stand before the try of line 396: an exception of
\* theirs leaves main, past the except and finally branches
UiLaunch ==
    /\ runner = "ui"
    /\ pc = "launch"
    /\ \E outcome \in LaunchOutcomes :
        /\ browser' = CASE outcome = "launch raises" -> "none"
                         [] outcome = "page raises" -> "launched"
                         [] OTHER -> "open"
        /\ IF outcome = "page created"
           THEN /\ pc' = "Authentication"
                /\ UNCHANGED <<uncaught, exit_code>>
           ELSE /\ uncaught' = TRUE
                /\ exit_code' = {1}
                /\ pc' = "exited"
    /\ UNCHANGED <<runner, results, summary, caught, closes, call, invoked, total>>

\* a main that would call test_authentication a second time after a false
\* verdict
UiNext_Retry(name, value) ==
    IF name = "Authentication" /\ ~Truthy(value)
    THEN IF Len(invoked) < 2 THEN "Authentication" ELSE "finally"
    ELSE IF IndexOf(UiProbes, name) < Len(UiProbes)
    THEN UiProbes[IndexOf(UiProbes, name) + 1]
    ELSE "finally"

\* the statement of main that follows test_results[name] = ...; lines
\* 398-400: the other probes run only if Authentication returned a true value
UiNext(name, value) ==
    IF name = "Authentication" /\ ~Truthy(value) THEN "finally"
    ELSE IF IndexOf(UiProbes, name) < Len(UiProbes)
    THEN UiProbes[IndexOf(UiProbes, name) + 1]
    ELSE "finally"

\* test_results[name] = <returned value> inside the try of main (398-410):
\* the value is stored, or the exception goes to the except branch
UiAssign ==
    /\ runner = "ui"
    /\ call.name = pc
    /\ IF call.out.raised
       THEN /\ pc' = "except"
            /\ UNCHANGED <<results, call>>
       ELSE /\ results' = DictSet(results, pc, call.out.ret)
            /\ pc' = UiNext(pc, call.out.ret)
            /\ call' = NoCall
    /\ UNCHANGED <<runner, summary, exit_code, uncaught, caught, browser, closes,
                   invoked, total>>

RunAuthentication ==
    /\ runner = "ui"
    /\ pc = "Authentication"
    /\ call = NoCall
    /\ \E in \in AuthInputs :
        \E out \in {test_authentication(in)} :
            Called("Authentication", in, out)

RunDashboard ==
    /\ runner = "ui"
    /\ pc = "Dashboard"
    /\ call = NoCall
    /\ \E in \in DashboardInputs :
        \E out \in {test_dashboard(in)} :
            Called("Dashboard", in, out)

RunDocuments ==
    /\ runner = "ui"
    /\ pc = "Documents"
    /\ call = NoCall
    /\ \E in \in DocumentsInputs :
        \E out \in {test_documents_page(in)} :
            Called("Documents", in, out)

RunBots ==
    /\ runner = "ui"
    /\ pc = "Bots"
    /\ call = NoCall
    /\ \E in \in BotsInputs :
        \E out \in {test_bots_page(in)} :
            Called("Bots", in, out)

RunKnowledge ==
    /\ runner = "ui"
    /\ pc = "Knowledge"
    /\ call = NoCall
    /\ \E in \in KnowledgeInputs :
        \E out \in {test_knowledge_page(in)} :
            Called("Knowledge", in, out)

RunConversations ==
    /\ runner = "ui"
    /\ pc = "Conversations"
    /\ call = NoCall
    /\ \E in \in ConversationsInputs :
        \E out \in {test_conversations_page(in)} :
            Called("Conversations", in, out)

RunAnalytics ==
    /\ runner = "ui"
    /\ pc = "Analytics"
    /\ call = NoCall
    /\ \E in \in AnalyticsInputs :
        \E out \in {test_analytics_page(in)} :
            Called("Analytics", in, out)

RunSettings ==
    /\ runner = "ui"
    /\ pc = "Settings"
    /\ call = NoCall
    /\ \E in \in SettingsInputs :
        \E out \in {test_settings_page(in)} :
            Called("Settings", in, out)

RunBilling ==
    /\ runner = "ui"
    /\ pc = "Billing"
    /\ call = NoCall
    /\ \E in \in BillingInputs :
        \E out \in {test_billing_page(in)} :
            Called("Billing", in, out)

RunTeam ==
    /\ runner = "ui"
    /\ pc = "Team"
    /\ call = NoCall
    /\ \E in \in TeamInputs :
        \E out \in {test_team_page(in)} :
            Called("Team", in, out)

\* lines 412-413
UiExcept ==
    /\ runner = "ui"
    /\ pc = "except"
    /\ caught' = TRUE
    /\ pc' = "finally"
    /\ UNCHANGED <<runner, results, summary, exit_code, uncaught, browser, closes,
                   call, invoked, total>>

\* the status column of a summary line of test_ui_production.py
UiStatus(result) == IF Truthy(result) THEN "PASS" ELSE "FAIL"

\* for test_name, result in test_results.items(): print(test_name, status)
UiSummaryLines(d) ==
    [k \in 1..Len(d) |-> [test |-> d[k].name, status |-> UiStatus(d[k].value)]]

\* passed = sum(1 for v in test_results.values() if v)
PassedCount(d) == Cardinality({k \in 1..Len(d) : Truthy(d[k].value)})

\* lines 414-429: the summary block of the finally branch
UiSummary ==
    /\ runner = "ui"
    /\ pc = "finally"
    /\ summary' = UiSummaryLines(results)
    /\ total' = {<<PassedCount(results), Len(results)>>}
    /\ pc' = "close"
    /\ UNCHANGED <<runner, results, exit_code, uncaught, caught, browser, closes,
                   call, invoked>>

\* lines 431-435: browser.close(), which may raise out of main
UiClose ==
    /\ runner = "ui"
    /\ pc = "close"
    /\ closes' = closes + 1
    /\ \E ok \in BOOLEAN :
        IF ok
        THEN /\ browser' = "closed"
             /\ pc' = "return"
             /\ UNCHANGED <<uncaught, exit_code>>
        ELSE /\ uncaught' = TRUE
             /\ exit_code' = {1}
             /\ pc' = "exited"
             /\ UNCHANGED browser
    /\ UNCHANGED <<runner, results, summary, caught, call, invoked, total>>

\* line 437
UiReturn ==
    /\ runner = "ui"
    /\ pc = "return"
    /\ exit_code' = {ExitCode(results)}
    /\ pc' = "exited"
    /\ UNCHANGED <<runner, results, summary, uncaught, caught, browser, closes,
                   call, invoked, total>>

Next ==
    \/ RunCorsHeaders
    \/ RunZodValidation
    \/ RunSetupStatusAuth
    \/ RunSqlInjectionProtection
    \/ RunRateLimiting
    \/ RunPlaywright
    \/ SecurityAssign
    \/ SecuritySummary
    \/ UiLaunch
    \/ RunAuthentication
    \/ RunDashboard
    \/ RunDocuments
    \/ RunBots
    \/ RunKnowledge
    \/ RunConversations
    \/ RunAnalytics
    \/ RunSettings
    \/ RunBilling
    \/ RunTeam
    \/ UiAssign
    \/ UiExcept
    \/ UiSummary
    \/ UiClose
    \/ UiReturn

Spec == Init /\ [][Next]_vars

(***************************************************************************)
(* Properties                                                              *)
(***************************************************************************)
\* the verdict that main derives from what a probe function gave back
Passed(out) == ~out.raised /\ Truthy(out.ret)
Failed(out) == ~out.raised /\ ~Truthy(out.ret)

Declared == IF runner = "security" THEN SecuritySuites ELSE UiProbes

AllRecorded(d, names) ==
    /\ Len(d) = Len(names)
    /\ \A k \in 1..Len(names) : d[k].name = names[k]

\* C1: when a run of the security runner ends, results holds exactly one
\* verdict for each of the 6 declared suites, whatever the external calls did
C1_OneVerdictPerSuite ==
    (runner = "security" /\ pc = "exited") => AllRecorded(results, SecuritySuites)

\* C2: in the ui runner every probe is executed and recorded once the browser
\* is launched, whatever the verdicts of the probes before it (a FAIL of or an
\* exception in an earlier probe does not prevent a later one)
C2_LaterProbesStillRun ==
    (runner = "ui" /\ pc = "exited" /\ browser # "none")
        => \A q \in 1..Len(UiProbes) : HasKey(results, UiProbes[q])

\* C3: the exit code is 0 if and only if every declared probe was executed
\* and received PASS, and 1 otherwise, for both entry points
C3_ExitZeroIffAllPass ==
    pc = "exited" =>
        /\ exit_code \in {{0}, {1}}
        /\ exit_code = {0} <=>
              \A k \in 1..Len(Declared) :
                  HasKey(results, Declared[k]) /\ Truthy(DictAt(results, Declared[k]))

ZodCasePasses(o) ==
    /\ ~o.err
    /\ o.status = 400
    /\ o.json
    /\ \/ o.code = PyStr("VALIDATION_ERROR")
       \/ o.error = "str" /\ IsSubstring(S_Validation, o.msg)

\* C4: a request that fails with a transport error is INCONCLUSIVE: it is
\* never counted as FAIL (a zod run whose other cases all pass is not FAIL)
\* and never counted as PASS (an sql or rate-limit run in which no request
\* got a response is not PASS, and not FAIL either)
C4_TransportErrorInconclusive ==
    /\ (/\ call.name = "Zod Validation"
        /\ \A k \in DOMAIN call.in : call.in[k].err \/ ZodCasePasses(call.in[k]))
           => ~Failed(call.out)
    /\ (/\ call.name = "SQL Injection Protection"
        /\ \A k \in DOMAIN call.in : call.in[k].err)
           => ~Passed(call.out)
    /\ (/\ call.name = "Rate Limiting"
        /\ \A k \in DOMAIN call.in : call.in[k].err)
           => ~Passed(call.out) /\ ~Failed(call.out)

\* C5: a body-parse exception in the predicate step is caught: the probe is
\* neither FAIL nor PASS and the run goes on (test_zod_validation does not
\* report FAIL for it, test_setup_status_auth does not raise out of main)
C5_PredicateExceptionCaught ==
    /\ (/\ call.name = "Zod Validation"
        /\ \A k \in DOMAIN call.in :
              \/ ZodCasePasses(call.in[k])
              \/ ~call.in[k].err /\ call.in[k].status = 400 /\ ~call.in[k].json)
           => ~Failed(call.out)
    /\ (/\ call.name = "Setup Status Auth"
        /\ ~call.in.err
        /\ ~call.in.json)
           => ~call.out.raised /\ ~uncaught

\* C6: when the final URL after visiting /dashboard without a session holds
\* neither /auth nor /login, the browser suite is FAIL and the exit code is
\* not zero
C6_NoRedirectIsFail ==
    /\ (/\ call.name = "Playwright Browser Tests"
        /\ ~call.in.raises
        /\ ~redirected_to_login(call.in.final_url))
           => Failed(call.out)
    /\ (/\ runner = "security"
        /\ pc = "exited"
        /\ HasKey(results, "Playwright Browser Tests"))
           => Truthy(DictAt(results, "Playwright Browser Tests")) \/ exit_code = {1}

\* C7: test_sql_injection_protection is PASS if and only if no response to
\* its 3 payloads has a status in 500..599
C7_PassIffNo5xx ==
    call.name = "SQL Injection Protection" =>
        (Passed(call.out) <=>
            ~\E k \in DOMAIN call.in :
                ~call.in[k].err /\ call.in[k].status \in 500..599)

\* C8: test_rate_limiting sends 7 requests and is PASS if at least one of the
\* 7 outcomes is a response with status 429 and FAIL if none is, for every
\* sequence of statuses and transport errors and every position of the 429
C8_RateLimitAny429 ==
    call.name = "Rate Limiting" =>
        /\ DOMAIN call.in = 1..7
        /\ call.out.sent = 7
        /\ Passed(call.out) <=>
              \E k \in 1..7 : ~call.in[k].err /\ call.in[k].status = 429
        /\ Failed(call.out) <=>
              ~\E k \in 1..7 : ~call.in[k].err /\ call.in[k].status = 429

\* a run in which the only 429 is neither first nor last, after a transport error
C8_Witness ==
    /\ call.name = "Rate Limiting"
    /\ call.in[2].err
    /\ ~call.in[4].err /\ call.in[4].status = 429
    /\ \A k \in (1..7) \ {4} : call.in[k].err \/ call.in[k].status # 429
    /\ pc = "Rate Limiting"
    /\ Passed(call.out)

\* C9: a case of test_zod_validation passes only with status 400 and a
\* validation marker in the body (code VALIDATION_ERROR, or an error message
\* holding "Validation"); the suite is PASS if and only if all 5 cases pass,
\* and all 5 requests are sent whatever the earlier cases gave
C9_ZodStatusAndMarker ==
    call.name = "Zod Validation" =>
        /\ ~call.out.raised
        /\ call.out.sent = 5
        /\ \A k \in 1..5 : ZodCase(ZodTests[k], call.in[k]) = "pass" => ZodCasePasses(call.in[k])
        /\ Passed(call.out) <=> \A k \in 1..5 : ZodCasePasses(call.in[k])

\* the first case has status 400 and a body without marker, the others pass
C9_Witness ==
    /\ call.name = "Zod Validation"
    /\ call.in[1] = ZodResp(400, TRUE, Absent, "absent", <<>>)
    /\ \A k \in 2..5 : ZodCasePasses(call.in[k])
    /\ call.out.sent = 5
    /\ Failed(call.out)

CorsHeaderPresent(o) == ACAO \in DOMAIN o.headers /\ o.headers[ACAO] # ""

C10_State ==
    /\ (call.name = "CORS Headers" /\ ~call.out.raised) =>
          (Passed(call.out) <=>
              CorsHeaderPresent(call.in.allowed) /\ ~CorsHeaderPresent(call.in.evil))
    /\ (runner = "security" /\ pc = "exited" /\ ~uncaught) =>
          /\ summary[1].test = "CORS Headers"
          /\ summary[1].status = "PASS" <=> Truthy(DictAt(results, "CORS Headers"))
          /\ exit_code = {0} => Truthy(DictAt(results, "CORS Headers"))

C10_Step ==
    (call.name = "CORS Headers" /\ call'.name # "CORS Headers")
        => results' = <<[name |-> "CORS Headers", value |-> call.out.ret]>>

\* C10: test_cors_headers is PASS if and only if the response for the allowed
\* origin has a non-empty Access-Control-Allow-Origin header and the response
\* for the disallowed origin has none; that verdict is the one recorded, and a
\* non-PASS verdict shows as non-PASS in the summary and in the exit code
C10_CorsPassIffIsolated == []C10_State /\ [][C10_Step]_vars

\* the allowed origin got no header: the recorded value is the empty string,
\* listed as CHECK, and the run exits 1
C10_Witness ==
    /\ runner = "security"
    /\ pc = "exited"
    /\ ~uncaught
    /\ DictAt(results, "CORS Headers") = PyStr("")
    /\ summary[1] = [test |-> "CORS Headers", status |-> "CHECK"]
    /\ exit_code = {1}

\* the explicit generic markers of the setup status body
SetupMarkers(in) ==
    /\ in.completed = PyBool(FALSE)
    /\ in.steps.kind = "dict"
    /\ in.steps.workspace = PyBool(FALSE)

\* C11: test_setup_status_auth is PASS if and only if the body has
\* completed = false and steps.workspace = false, and FAIL for every body in
\* which a marker is missing, null or true, whatever the HTTP status
C11_PassIffGenericMarkers ==
    (call.name = "Setup Status Auth" /\ ~call.in.err /\ call.in.json) =>
        /\ Passed(call.out) <=> SetupMarkers(call.in)
        /\ ~SetupMarkers(call.in) => Failed(call.out)

\* the final summary has been printed
SummaryPrinted ==
    IF runner = "security" THEN exit_code # {} /\ ~uncaught ELSE total # {}

\* C12: the probes are executed and recorded in their declaration order, and
\* the final summary of a run has one line per recorded probe, in that order
\* and with no probe twice, also when the run was cut short and only a prefix
\* of the probes was recorded
C12_DeclarationOrderPreserved ==
    /\ Len(invoked) <= Len(Declared)
    /\ \A k \in 1..Len(invoked) : invoked[k] = Declared[k]
    /\ Len(results) <= Len(invoked)
    /\ \A k \in 1..Len(results) : results[k].name = invoked[k]
    /\ exit_code # {} =>
        /\ Len(summary) = Len(results)
        /\ \A k \in 1..Len(summary) : summary[k].test = results[k].name
        /\ \A j, k \in 1..Len(summary) : summary[j].test = summary[k].test => j = k

\* the probes that have reached a terminal verdict: a recorded value, or the
\* exception that ended the call
Terminal ==
    Len(results) + (IF call # NoCall /\ call.out.raised /\ pc # call.name THEN 1 ELSE 0)

C13_State ==
    \* no probe function is invoked a second time
    /\ \A j, k \in 1..Len(invoked) : invoked[j] = invoked[k] => j = k
    \* at most one probe is running: a probe is called only when every probe
    \* called before it has its verdict
    /\ Len(invoked) - Terminal <= 1
    /\ call # NoCall => call.name = invoked[Len(invoked)]
    \* a verdict is written only for a probe that was called, one per probe
    /\ Len(results) <= Len(invoked)
    /\ \A k \in 1..Len(results) : results[k].name = invoked[k]

C13_Step ==
    \* a call is never taken back
    /\ Len(invoked') >= Len(invoked)
    /\ \A k \in 1..Len(invoked) : invoked'[k] = invoked[k]
    \* a written verdict is never overwritten or removed
    /\ Len(results') >= Len(results)
    /\ \A k \in 1..Len(results) : results'[k] = results[k]
    \* a verdict is written only by the step that ends the running call
    /\ Len(results') > Len(results) =>
        /\ Len(results') = Len(results) + 1
        /\ call.name = pc
        /\ results'[Len(results')] = [name |-> call.name, value |-> call.out.ret]
    \* nothing is written once the summary or the exit code exists
    /\ (SummaryPrinted \/ exit_code # {}) => results' = results

\* C13: in any run of either runner each probe is called at most once, at
\* most one probe is running at any moment, and a verdict written to the
\* results mapping is never overwritten or removed
C13_PerProbeStateMachine == []C13_State /\ [][C13_Step]_vars

\* the last ui probe is running while the nine before it have their verdicts
C13_Witness ==
    /\ runner = "ui"
    /\ pc = "Team"
    /\ call.name = "Team"
    /\ Len(invoked) = Len(UiProbes)
    /\ Len(results) = Len(UiProbes) - 1
    /\ \E k \in 1..Len(results) : ~Truthy(results[k].value)

\* the ui process has ended: main returned its exit code or an exception left it
UiEnded == runner = "ui" /\ exit_code # {}

\* C14: on every path after the browser is launched the summary is printed
\* and then browser.close() is called exactly once before the exit code is
\* returned, and no probe is started after the summary
C14_AfterLaunchSummaryThenClose ==
    /\ (UiEnded /\ browser # "none") => (total # {} /\ closes = 1)
    /\ (runner = "ui" /\ closes >= 1) => total # {}
    /\ (runner = "ui" /\ total # {}) => pc \in {"close", "return", "exited"}

\* the six page probes of C15
PageProbes == {"Dashboard", "Documents", "Bots", "Knowledge", "Settings", "Team"}

\* the checks a page probe made on the outcomes `in`
ChecksOf(name, in) ==
    CASE name = "Dashboard" -> DashboardChecks(in)
      [] name = "Documents" -> DocumentsChecks(in)
      [] name = "Bots" -> BotsChecks(in)
      [] name = "Knowledge" -> KnowledgeChecks(in)
      [] name = "Settings" -> SettingsChecks(in)
      [] name = "Team" -> TeamChecks(in)

\* what the critical checks of a page probe observed, nothing else looked at
CriticalHold(name, in) ==
    CASE name = "Dashboard" -> in.header /\ in.nav
      [] name = "Team" -> in.header \/ IsSubstring(S_team, in.url)
      [] OTHER -> in.header

\* C15: a page probe returns False if and only if a check logged with status
\* FAIL did not hold; a check logged WARN or INFO, or an exception inside a
\* non-critical check, never changes the returned value
C15_FalseIffFailLogged ==
    call.name \in PageProbes =>
        LET checks == IF call.in.nav_ok THEN ChecksOf(call.name, call.in) ELSE <<>> IN
        /\ (~call.out.raised /\ call.out.ret = PyBool(FALSE)) <=>
               \E k \in 1..Len(checks) : checks[k].status = "FAIL"
        /\ \A k \in 1..Len(checks) : checks[k].status = "FAIL" <=> ~checks[k].value
        /\ call.in.nav_ok =>
            /\ call.out.ret \in {PyBool(TRUE), PyBool(FALSE)}
            /\ Passed(call.out) <=> CriticalHold(call.name, call.in)

\* the documents probe passes although both of its non-critical checks raised
C15_Witness ==
    /\ call.name = "Documents"
    /\ call.in.nav_ok
    /\ call.in.header
    /\ call.in.list_raises
    /\ call.in.sync_raises
    /\ DocumentsChecks(call.in)[2].status = "WARN"
    /\ Passed(call.out)

\* C16: test_authentication returns True if and only if a heading was shown
\* and, after the credentials were submitted, the wait reached a dashboard
\* URL or the current URL contains "/setup"; with no heading it returns False
\* without submitting, and after a failed wait on a URL without "/setup" it
\* returns False
C16_TrueIffHeadingAndDashboardOrSetup ==
    call.name = "Authentication" =>
        LET in == call.in
            heading == in.goto_ok /\ (in.welcome \/ in.alt_heading)
            submitted == heading /\ in.form_ok
            landed == in.wait_ok \/ IsSubstring(S_setup, in.url)
        IN  /\ (~call.out.raised /\ call.out.ret = PyBool(TRUE)) <=> (submitted /\ landed)
            /\ (in.goto_ok /\ ~heading) => call.out = Return(PyBool(FALSE), 0)
            /\ (submitted /\ ~landed) => call.out = Return(PyBool(FALSE), 1)

====
